---- MODULE Spec2Model ----
(***************************************************************************)
(* SparseDirectMethod (src/SparseDirectMethod.cpp): the multifrontal       *)
(* solver's public operations analyzePattern / factorize / solve, the      *)
(* elimination-tree and assembly-tree builders, the per-front LDL^T        *)
(* kernel and the worker loop of processFrontsInParallel.                  *)
(*                                                                         *)
(* C++ vectors are functions over 0..n-1 (the code is 0-based); the inner  *)
(* vectors that are only appended to and iterated are sequences.           *)
(* A double is an exact rational <<num, den>> with den > 0, or one of the  *)
(* IEEE specials <<1,0>> (+inf), <<-1,0>> (-inf), <<0,0>> (NaN).           *)
(***************************************************************************)
EXTENDS Integers, Sequences, FiniteSets, Bags, TLC

\* ------------------------------------------------------------------ bounds
MaxW == 2          \* largest value std::thread::hardware_concurrency() takes
MaxCalls == 3      \* analyzePattern and factorize calls that get past their checks
MaxDim == 3        \* largest dimension of the identity matrices

\* --------------------------------------------------------------- doubles
NaN == <<0, 0>>
PInf == <<1, 0>>
NInf == <<-1, 0>>
Zero == <<0, 1>>
One == <<1, 1>>

Abs(x) == IF x < 0 THEN -x ELSE x
Sgn(x) == IF x < 0 THEN -1 ELSE IF x > 0 THEN 1 ELSE 0

RECURSIVE Gcd(_, _)
Gcd(a, b) == IF b = 0 THEN a ELSE Gcd(b, a % b)

\* the rational n/d (d # 0) in lowest terms with a positive denominator
Rat(n, d) ==
    LET s == IF d < 0 THEN -1 ELSE 1
        g == Gcd(Abs(n), Abs(d))
    IN  <<(s * n) \div g, (s * d) \div g>>

Dbl(k) == <<k, 1>>
IsNaN(a) == a = NaN
IsFinite(a) == a[2] # 0

\* a * b for doubles
Mul(a, b) ==
    IF IsNaN(a) \/ IsNaN(b) THEN NaN
    ELSE IF ~IsFinite(a) \/ ~IsFinite(b)
         THEN (IF a[1] = 0 \/ b[1] = 0 THEN NaN ELSE <<Sgn(a[1]) * Sgn(b[1]), 0>>)
    ELSE Rat(a[1] * b[1], a[2] * b[2])

\* a - b for doubles
Sub(a, b) ==
    IF IsNaN(a) \/ IsNaN(b) THEN NaN
    ELSE IF ~IsFinite(a) THEN (IF b = a THEN NaN ELSE a)
    ELSE IF ~IsFinite(b) THEN <<-b[1], 0>>
    ELSE Rat(a[1] * b[2] - b[1] * a[2], a[2] * b[2])

\* a / b for doubles (a zero divisor is +0: the kernel never produces -0
\* in D, see factorizeFrontalMatrix)
Div(a, b) ==
    IF IsNaN(a) \/ IsNaN(b) THEN NaN
    ELSE IF ~IsFinite(a)
         THEN (IF ~IsFinite(b) THEN NaN
               ELSE <<a[1] * (IF b[1] < 0 THEN -1 ELSE 1), 0>>)
    ELSE IF ~IsFinite(b) THEN Zero
    ELSE IF b[1] = 0 THEN (IF a[1] = 0 THEN NaN ELSE <<Sgn(a[1]), 0>>)
    ELSE Rat(a[1] * b[2], a[2] * b[1])

\* ------------------------------------------------------ input matrices
\* Eigen::SparseMatrix<double>: shape and the stored (row, col, value) entries
SparseMatrix(r, c, e) == [rows |-> r, cols |-> c, entries |-> e]

\* both triangles stored, as setFromTriplets is fed in the drivers
SymFull(n, diag, off) ==
    SparseMatrix(n, n,
        {<<i, i, diag[i + 1]>> : i \in 0..(n - 1)}
        \cup {<<e[1], e[2], e[3]>> : e \in off}
        \cup {<<e[2], e[1], e[3]>> : e \in off})

M_One == SymFull(1, <<2>>, {})
M_Identity2 == SymFull(2, <<1, 1>>, {})
M_Swap2 == SparseMatrix(2, 2, {<<0, 1, 1>>, <<1, 0, 1>>})
M_Chain3 == SymFull(3, <<4, 5, 4>>, {<<0, 1, -1>>, <<1, 2, -1>>})
M_Arrow3 == SymFull(3, <<4, 4, 5>>, {<<0, 2, -1>>, <<1, 2, -1>>})
M_Empty == SparseMatrix(0, 0, {})
M_Wide == SparseMatrix(2, 3, {})

\* two independent 2x2 blocks, on the variables {0,1} and {2,3}
M_Block4 == SymFull(4, <<4, 4, 4, 4>>, {<<0, 1, -1>>, <<2, 3, -1>>})

Matrices == {M_One, M_Identity2, M_Swap2, M_Chain3, M_Arrow3, M_Empty, M_Wide}

\* right-hand sides (Eigen::VectorXd)
Vec(s) == [i \in 0..(Len(s) - 1) |-> s[i + 1]]
RhsVectors == {Vec(<<>>), Vec(<<3>>), Vec(<<1, 2>>), Vec(<<1, 2, 3>>)}

Size(v) == Cardinality(DOMAIN v)


\* Max taking the least element
Max_Least(S) == CHOOSE x \in S : \A y \in S : x <= y

Max(S) == CHOOSE x \in S : \A y \in S : y <= x

\* a std::set<int> iterated in ascending order
RECURSIVE SortedSeq(_)
SortedSeq(S) ==
    IF S = {} THEN <<>>
    ELSE LET m == CHOOSE x \in S : \A y \in S : x <= y
         IN  <<m>> \o SortedSeq(S \ {m})

Range(s) == {s[i] : i \in 1..Len(s)}

\* std::vector<T>::resize(n, fill): old elements below n survive
Resize(v, n, fill) == [i \in 0..(n - 1) |-> IF i \in DOMAIN v THEN v[i] ELSE fill]

\* ------------------------------------------- buildEliminationTreeProper
\* adjacency sets from the stored off-diagonal entries, both directions
Adjacency(matrix) ==
    [v \in 0..(matrix.rows - 1) |->
        {e[2] : e \in {t \in matrix.entries : t[1] = v /\ t[1] # t[2]}}
        \cup {e[1] : e \in {t \in matrix.entries : t[2] = v /\ t[1] # t[2]}}]

\* the elimination loop, i = perm_to_elim[i] (identity ordering)
RECURSIVE EliminationLoop(_, _, _, _, _, _)
EliminationLoop(i, n, adjacency, visited, parent, children) ==
    IF i >= n THEN [etree_parent |-> parent, etree_children |-> children]
    ELSE LET v == i
             visited1 == visited \cup {v}
             unvisited_neighbors == {u \in adjacency[v] : u \notin visited1}
         IN  IF unvisited_neighbors # {}
             THEN LET p == Max(unvisited_neighbors)
                  IN  EliminationLoop(i + 1, n, adjacency, visited1,
                          [parent EXCEPT ![v] = p],
                          [children EXCEPT ![p] = Append(@, v)])
             ELSE EliminationLoop(i + 1, n, adjacency, visited1, parent, children)

\* etree_parent and etree_children are resized, never cleared, before the loop
buildEliminationTreeProper(matrix, old_parent, old_children) ==
    LET n == matrix.rows
    IN  EliminationLoop(0, n, Adjacency(matrix), {},
                        Resize(old_parent, n, -1), Resize(old_children, n, <<>>))

\* --------------------------------------------- buildAssemblyTreeProper
\* getVariablesForNode without the insert of the node itself
getVariablesForNode_ChildrenOnly(node, children) == Range(children[node])

getVariablesForNode(node, children) == {node} \cup Range(children[node])

NoMatrix == <<>>

createFrontForNode(node, children) ==
    LET vars == getVariablesForNode(node, children)
    IN  [id |-> node,
         variables |-> vars,
         eliminated_vars |-> <<node>>,
         remaining_vars |-> SortedSeq(vars \ {node}),
         dependencies |-> <<>>,
         dependents |-> <<>>,
         processed |-> FALSE,
         F |-> NoMatrix,
         L |-> NoMatrix,
         D |-> NoMatrix]

\* the dependency loops: for i, for child in etree_children[i] (k-th entry)
RECURSIVE DependencyLoop(_, _, _, _, _)
DependencyLoop(i, k, n, children, fr) ==
    IF i >= n THEN fr
    ELSE IF k > Len(children[i]) THEN DependencyLoop(i + 1, 1, n, children, fr)
    ELSE LET child == children[i][k]
             fr1 == [fr EXCEPT ![child].dependents = Append(@, i)]
             fr2 == [fr1 EXCEPT ![i].dependencies = Append(@, child)]
         IN  DependencyLoop(i, k + 1, n, children, fr2)

buildAssemblyTreeProper(matrix, children) ==
    LET n == matrix.rows
    IN  DependencyLoop(0, 1, n, children,
                       [i \in 0..(n - 1) |-> createFrontForNode(i, children)])

\* ------------------------------------------------------------ processFront
\* var_to_idx: position of a variable in the ascending std::set
VarToIdx(variables, var) == Cardinality({u \in variables : u < var})

ZeroMatrix(m) == [i \in 0..(m - 1) |-> [j \in 0..(m - 1) |-> Zero]]
IdentityMatrix(m) == [i \in 0..(m - 1) |-> [j \in 0..(m - 1) |-> IF i = j THEN One ELSE Zero]]
ZeroVector(m) == [i \in 0..(m - 1) |-> Zero]

\* F.resize(front_size, front_size); F.setZero()
ResizeFront(front) == [front EXCEPT !.F = ZeroMatrix(Cardinality(front.variables))]

\* the fill loop: every stored entry with row and col in the front is assigned
FillFront(front, matrix) ==
    LET vars == front.variables
        m == Cardinality(vars)
        Hit(i, j) == {t \in matrix.entries :
                        /\ t[1] \in vars /\ t[2] \in vars
                        /\ VarToIdx(vars, t[1]) = i /\ VarToIdx(vars, t[2]) = j}
    IN  [front EXCEPT !.F =
            [i \in 0..(m - 1) |-> [j \in 0..(m - 1) |->
                IF Hit(i, j) # {} THEN Dbl((CHOOSE t \in Hit(i, j) : TRUE)[3])
                ELSE front.F[i][j]]]]

\* addChildContributions walks the children and adds nothing
addChildContributions(front) == front

\* acc -= L(a,k) * L(b,k) * D(k) for k = k0 .. i-1, in that order
RECURSIVE SubProducts(_, _, _, _, _, _, _)
SubProducts(acc, L, D, a, b, k, i) ==
    IF k >= i THEN acc
    ELSE SubProducts(Sub(acc, Mul(Mul(L[a][k], L[b][k]), D[k])), L, D, a, b, k + 1, i)

\* the column loop of the LDL^T decomposition
RECURSIVE LDLColumns(_, _, _, _, _)
LDLColumns(F, n, i, L, D) ==
    IF i >= n THEN [L |-> L, D |-> D]
    ELSE LET d == SubProducts(F[i][i], L, D, i, i, 0, i)
             D1 == [D EXCEPT ![i] = d]
             L1 == [j \in 0..(n - 1) |-> [c \in 0..(n - 1) |->
                       IF c = i /\ j > i
                       THEN Div(SubProducts(F[j][i], L, D1, j, i, 0, i), D1[i])
                       ELSE L[j][c]]]
         IN  LDLColumns(F, n, i + 1, L1, D1)

factorizeFrontalMatrix(front) ==
    LET n == Size(front.F)
    IN  IF n = 0 THEN front
        ELSE LET r == LDLColumns(front.F, n, 0, IdentityMatrix(n), ZeroVector(n))
             IN  [front EXCEPT !.L = r.L, !.D = r.D]


\* ---------------------------------------------------------------- state
VARIABLES
    pattern_analyzed,    \* bool pattern_analyzed
    factorization_done,  \* bool factorization_done
    rows, cols,          \* int rows, cols
    etree_parent,        \* std::vector<int> etree_parent (-1: none)
    etree_children,      \* std::vector<std::vector<int>> etree_children
    fronts,              \* std::vector<std::shared_ptr<Front>> fronts
    running,             \* a factorize call is inside processFrontsInParallel
    matrix,              \* the matrix argument of that call
    num_threads,         \* its num_threads
    total_fronts,        \* its total_fronts
    completed_fronts,    \* its std::atomic<int> completed_fronts
    threads,             \* its worker threads: a bag of [pc, front_index]
    result,              \* what the last public call gave its caller
    analyze_calls,       \* analyzePattern calls that returned normally
    runs,                \* factorize calls that started workers
    process_count,       \* processFront invocations per front in this run
    factorize_returned,  \* some factorize call has returned normally
    analyzed,            \* the matrix of the last analyzePattern that succeeded
    factorized,          \* the matrix of the last factorize that returned normally
                         \* since then (M_Empty: none)
    rhs_arg,             \* the caller's rhs vector as the last call left it, when
                         \* that call was a solve
    umfpack,             \* a MultifrontalMethod or ParallelMultifrontalMethod object
    umfpack_call         \* what the calls on that object did and returned

solver == <<pattern_analyzed, factorization_done, rows, cols,
            etree_parent, etree_children, fronts>>
call == <<running, matrix, num_threads, total_fronts, completed_fronts,
          threads>>
history == <<analyze_calls, runs, process_count, factorize_returned,
             analyzed, factorized, rhs_arg>>
multifrontal == <<umfpack, umfpack_call>>
vars == <<solver, call, result, history, multifrontal>>

\* a worker thread: where it is in its loop, and its front_index (-1: none).
\* The threads run the same lambda and have no identity, so the std::vector of
\* threads is kept as a bag of their local states.
Thread(at, i) == [pc |-> at, front_index |-> i]
Spawn(W) == [t \in {Thread("while", -1)} |-> W]
\* one thread leaves state t for state u
Step(t, u) == (threads (-) SetToBag({t})) (+) SetToBag({u})
Workers == BagToSet(threads)

\* the exceptions of the public operations, by the spec's names
DimensionError == "DimensionError"                   \* invalid_argument, line 18
NotSquareError == "NotSquareError"                   \* invalid_argument, line 22
PatternNotAnalyzedError == "PatternNotAnalyzedError" \* runtime_error, line 38
DimensionMismatchError == "DimensionMismatchError"   \* invalid_argument, lines 42, 56
NotFactorizedError == "NotFactorizedError"           \* runtime_error, line 52
Errors == {DimensionError, NotSquareError, PatternNotAnalyzedError,
           DimensionMismatchError, NotFactorizedError}

Outcome(op, status) == [op |-> op, status |-> status, returned |-> FALSE, x |-> <<>>]
Returned(op, x) == [op |-> op, status |-> "ok", returned |-> TRUE, x |-> x]

\* no solve call to remember; the rhs of a solve call
NoRhs == [given |-> FALSE, v |-> <<>>]
Rhs(v) == [given |-> TRUE, v |-> v]

\* no UMFPACK-backed object constructed yet; no call made on it yet
NoObject == [class |-> "none"]
NoCall == [calls |-> 0, op |-> "none", ret |-> FALSE, past_guard |-> FALSE,
           last_factorize |-> "none", good |-> 0]

Init ==
    /\ pattern_analyzed = FALSE
    /\ factorization_done = FALSE
    /\ rows = 0
    /\ cols = 0
    /\ etree_parent = <<>>
    /\ etree_children = <<>>
    /\ fronts = <<>>
    /\ running = FALSE
    /\ matrix = M_Empty
    /\ num_threads = 0
    /\ total_fronts = 0
    /\ completed_fronts = 0
    /\ threads = EmptyBag
    /\ result = Outcome("none", "none")
    /\ analyze_calls = 0
    /\ runs = 0
    /\ process_count = <<>>
    /\ factorize_returned = FALSE
    /\ analyzed = M_Empty
    /\ factorized = M_Empty
    /\ rhs_arg = NoRhs
    /\ umfpack = NoObject
    /\ umfpack_call = NoCall

\* --------------------------------------------------------- analyzePattern
\* analyzePatternCheck without the square test
analyzePatternCheck_NoSquareTest(m) ==
    IF m.rows <= 0 \/ m.cols <= 0 THEN DimensionError
    ELSE "ok"

analyzePatternCheck(m) ==
    IF m.rows <= 0 \/ m.cols <= 0 THEN DimensionError
    ELSE IF m.rows # m.cols THEN NotSquareError
    ELSE "ok"

analyzePattern(m) ==
    /\ ~running
    /\ LET status == analyzePatternCheck(m)
       IN  IF status # "ok"
           THEN /\ result' = Outcome("analyzePattern", status)
                /\ rhs_arg' = NoRhs
                /\ UNCHANGED <<multifrontal, solver, call, analyze_calls, runs,
                               process_count, factorize_returned, analyzed, factorized>>
           ELSE /\ analyze_calls + runs < MaxCalls
                /\ LET tree == buildEliminationTreeProper(m, etree_parent, etree_children)
                   IN  /\ rows' = m.rows
                       /\ cols' = m.cols
                       /\ etree_parent' = tree.etree_parent
                       /\ etree_children' = tree.etree_children
                       /\ fronts' = buildAssemblyTreeProper(m, tree.etree_children)
                /\ pattern_analyzed' = TRUE
                /\ analyze_calls' = analyze_calls + 1
                /\ process_count' = [i \in 0..(m.rows - 1) |-> 0]
                /\ result' = Outcome("analyzePattern", "ok")
                /\ analyzed' = m
                /\ factorized' = M_Empty
                /\ rhs_arg' = NoRhs
                /\ UNCHANGED <<multifrontal, factorization_done, call, runs, factorize_returned>>

\* -------------------------------------------------------------- factorize
\* factorizeCheck without the pattern_analyzed test
factorizeCheck_NoAnalyzedTest(m) ==
    IF m.rows # rows \/ m.cols # cols THEN DimensionMismatchError
    ELSE "ok"

\* factorizeCheck comparing only the row count
factorizeCheck_RowsOnly(m) ==
    IF ~pattern_analyzed THEN PatternNotAnalyzedError
    ELSE IF m.rows # rows THEN DimensionMismatchError
    ELSE "ok"

factorizeCheck(m) ==
    IF ~pattern_analyzed THEN PatternNotAnalyzedError
    ELSE IF m.rows # rows \/ m.cols # cols THEN DimensionMismatchError
    ELSE "ok"

\* assembleAndFactorParallel: reset the processed flags
ResetProcessed(fr) == [i \in DOMAIN fr |-> [fr[i] EXCEPT !.processed = FALSE]]

\* factorize up to the point where the worker threads exist
factorizeCall(m, W) ==
    /\ ~running
    /\ LET status == factorizeCheck(m)
       IN  IF status # "ok"
           THEN /\ result' = Outcome("factorize", status)
                /\ rhs_arg' = NoRhs
                /\ UNCHANGED <<multifrontal, solver, call, analyze_calls, runs,
                               process_count, factorize_returned, analyzed, factorized>>
           ELSE /\ analyze_calls + runs < MaxCalls
                /\ fronts' = ResetProcessed(fronts)
                /\ running' = TRUE
                /\ matrix' = m
                /\ num_threads' = W
                /\ total_fronts' = Size(fronts)
                /\ completed_fronts' = 0
                /\ threads' = Spawn(W)
                /\ runs' = runs + 1
                /\ process_count' = [i \in DOMAIN fronts |-> 0]
                /\ result' = Outcome("factorize", "running")
                /\ rhs_arg' = NoRhs
                /\ UNCHANGED <<multifrontal, pattern_analyzed, factorization_done, rows, cols,
                               etree_parent, etree_children,
                               analyze_calls, factorize_returned,
                               analyzed, factorized>>

\* while (completed_fronts.load() < total_fronts)
WhileTest(w) ==
    /\ running /\ w.pc = "while"
    /\ threads' = Step(w, Thread(IF completed_fronts < total_fronts THEN "lock" ELSE "exit", -1))
    /\ UNCHANGED <<multifrontal, solver, running, matrix, num_threads, total_fronts,
                   completed_fronts, result, history>>

\* can_process: every dependency is processed
CanProcess(fr, i) ==
    \A k \in 1..Len(fr[i].dependencies) :
        LET dep == fr[i].dependencies[k]
        IN  ~(dep < Size(fr) /\ ~fr[dep].processed)

\* the scan under fronts_mutex: the lowest unprocessed front that can be processed
\* ReadyFronts with the processed test inverted
ReadyFronts_Processed(fr) == {i \in DOMAIN fr : fr[i].processed /\ CanProcess(fr, i)}
ReadyFronts(fr) == {i \in DOMAIN fr : ~fr[i].processed /\ CanProcess(fr, i)}
FindFront(fr) == IF ReadyFronts(fr) = {} THEN -1
                 ELSE CHOOSE i \in ReadyFronts(fr) : \A j \in ReadyFronts(fr) : i <= j

AllProcessed(fr) == \A i \in DOMAIN fr : fr[i].processed

\* the first critical section (lines 252-293), found a front
Claim(w) ==
    /\ running /\ w.pc = "lock"
    /\ FindFront(fronts) # -1
    /\ threads' = Step(w, Thread("process", FindFront(fronts)))
    /\ process_count' = [process_count EXCEPT ![FindFront(fronts)] = @ + 1]
    /\ UNCHANGED <<multifrontal, solver, running, matrix, num_threads, total_fronts,
                   completed_fronts, result, analyze_calls, runs, factorize_returned,
                   analyzed, factorized, rhs_arg>>

\* the first critical section, no front found: break when all fronts are
\* processed; otherwise cv.wait_for gives the lock up, returns when notified
\* or after its 10 ms, and the loop continues
NoFront(w) ==
    /\ running /\ w.pc = "lock"
    /\ FindFront(fronts) = -1
    /\ threads' = Step(w, Thread(IF AllProcessed(fronts) THEN "exit" ELSE "while", -1))
    /\ UNCHANGED <<multifrontal, solver, running, matrix, num_threads, total_fronts,
                   completed_fronts, result, history>>

\* processFront: assemble the frontal matrix, then factorize it
processFront(front, m) ==
    factorizeFrontalMatrix(addChildContributions(FillFront(ResizeFront(front), m)))

\* what unsynchronised concurrent writers can leave in a front's F, L and D
Torn(front) ==
    LET n == Cardinality(front.variables)
    IN  [front EXCEPT !.F = [i \in 0..(n - 1) |-> [j \in 0..(n - 1) |-> NaN]],
                      !.L = [i \in 0..(n - 1) |-> [j \in 0..(n - 1) |-> NaN]],
                      !.D = [i \in 0..(n - 1) |-> NaN]]

\* processFront outside the lock (line 297).  A front that was handed to more
\* than one worker in this run is written without synchronisation (a data
\* race): its contents are then either the computed ones or torn.
ProcessFront(w) ==
    /\ running /\ w.pc = "process"
    /\ \E outcome \in {processFront(fronts[w.front_index], matrix)}
                      \cup (IF process_count[w.front_index] > 1
                            THEN {Torn(fronts[w.front_index])} ELSE {}) :
          fronts' = [fronts EXCEPT ![w.front_index] = outcome]
    /\ threads' = Step(w, Thread("mark", w.front_index))
    /\ UNCHANGED <<multifrontal, pattern_analyzed, factorization_done, rows, cols, etree_parent,
                   etree_children, running, matrix, num_threads, total_fronts,
                   completed_fronts, result, history>>

\* the second critical section (lines 299-306)
MarkProcessed(w) ==
    /\ running /\ w.pc = "mark"
    /\ fronts' = [fronts EXCEPT ![w.front_index].processed = TRUE]
    /\ completed_fronts' = completed_fronts + 1
    /\ threads' = Step(w, Thread("while", -1))
    /\ UNCHANGED <<multifrontal, pattern_analyzed, factorization_done, rows, cols, etree_parent,
                   etree_children, running, matrix, num_threads, total_fronts,
                   result, history>>

\* every thread is joined; factorize sets factorization_done and returns
factorizeReturn ==
    /\ running
    /\ \A w \in Workers : w.pc = "exit"
    /\ factorization_done' = TRUE
    /\ running' = FALSE
    /\ matrix' = M_Empty
    /\ num_threads' = 0
    /\ total_fronts' = 0
    /\ completed_fronts' = 0
    /\ threads' = EmptyBag
    /\ factorize_returned' = TRUE
    /\ factorized' = matrix
    /\ result' = Outcome("factorize", "ok")
    /\ UNCHANGED <<multifrontal, pattern_analyzed, rows, cols, etree_parent, etree_children,
                   fronts, analyze_calls, runs, process_count, analyzed, rhs_arg>>

\* assembleAndFactor, the sequential version: processFront on every front in
\* the order of the fronts vector
RECURSIVE SequentialLoop(_, _, _)
SequentialLoop(fr, m, i) ==
    IF i >= Size(fr) THEN fr
    ELSE SequentialLoop([fr EXCEPT ![i] = processFront(fr[i], m)], m, i + 1)

assembleAndFactor(fr, m) == SequentialLoop(fr, m, 0)

\* ------------------------------------------------------------------ solve
\* solveCheck without the factorization_done test
solveCheck_NoFactorizedTest(rhs) ==
    IF Size(rhs) # rows THEN DimensionMismatchError
    ELSE "ok"

\* solveCheck accepting a rhs shorter than rows
solveCheck_ShortRhs(rhs) ==
    IF ~factorization_done THEN NotFactorizedError
    ELSE IF Size(rhs) > rows THEN DimensionMismatchError
    ELSE "ok"

solveCheck(rhs) ==
    IF ~factorization_done THEN NotFactorizedError
    ELSE IF Size(rhs) # rows THEN DimensionMismatchError
    ELSE "ok"

\* forwardSubstitution eliminating with a unit lower bidiagonal L
forwardSubstitution_Bidiagonal(x) ==
    [i \in DOMAIN x |-> IF i = 0 THEN x[i] ELSE x[i] - x[i - 1]]

\* both substitutions return without touching x
forwardSubstitution(x) == x
backwardSubstitution(x) == x

\* solve working on rhs itself instead of the copy x
solve_InPlace(rhs) ==
    /\ ~running
    /\ LET status == solveCheck(rhs)
       IN  /\ result' = IF status # "ok" THEN Outcome("solve", status)
                         ELSE Returned("solve", backwardSubstitution(forwardSubstitution(rhs)))
           /\ rhs_arg' = IF status # "ok" THEN Rhs(rhs)
                          ELSE Rhs([i \in DOMAIN rhs |-> 0])
    /\ UNCHANGED <<multifrontal, solver, call, analyze_calls, runs, process_count,
                   factorize_returned, analyzed, factorized>>

\* rhs is a const reference: the call leaves the caller's vector as it was
solve(rhs) ==
    /\ ~running
    /\ LET status == solveCheck(rhs)
       IN  result' = IF status # "ok" THEN Outcome("solve", status)
                     ELSE Returned("solve", backwardSubstitution(forwardSubstitution(rhs)))
    /\ rhs_arg' = Rhs(rhs)
    /\ UNCHANGED <<multifrontal, solver, call, analyze_calls, runs, process_count,
                   factorize_returned, analyzed, factorized>>

Next ==
    \/ \E m \in Matrices : analyzePattern(m)
    \/ \E m \in Matrices, W \in 1..MaxW : factorizeCall(m, W)
    \/ \E w \in Workers : WhileTest(w)
    \/ \E w \in Workers : Claim(w)
    \/ \E w \in Workers : NoFront(w)
    \/ \E w \in Workers : ProcessFront(w)
    \/ \E w \in Workers : MarkProcessed(w)
    \/ factorizeReturn
    \/ \E rhs \in RhsVectors : solve(rhs)

Spec == Init /\ [][Next]_vars

\* variable 0 coupled with 1 and with 2, which are not coupled
M_Vee3 == SymFull(3, <<4, 4, 4>>, {<<0, 1, -1>>, <<0, 2, -1>>})

\* the analysis alone, on the matrices above, the block-diagonal one and M_Vee3
AnalysisMatrices == Matrices \cup {M_Block4, M_Vee3}

NextAnalyze == \E m \in AnalysisMatrices : analyzePattern(m)

SpecAnalyze == Init /\ [][NextAnalyze]_vars

\* the solver used on identity matrices only, of every dimension up to MaxDim
IdentityOf(n) == SymFull(n, [i \in 1..n |-> 1], {})
IdentityMatrices == {IdentityOf(n) : n \in 1..MaxDim}

NextIdentity ==
    \/ \E m \in IdentityMatrices : analyzePattern(m)
    \/ \E m \in IdentityMatrices, W \in 1..MaxW : factorizeCall(m, W)
    \/ \E w \in Workers : WhileTest(w)
    \/ \E w \in Workers : Claim(w)
    \/ \E w \in Workers : NoFront(w)
    \/ \E w \in Workers : ProcessFront(w)
    \/ \E w \in Workers : MarkProcessed(w)
    \/ factorizeReturn
    \/ \E rhs \in RhsVectors : solve(rhs)

SpecIdentity == Init /\ [][NextIdentity]_vars

\* one symmetric matrix in its three storages
UpperOf(m) == SparseMatrix(m.rows, m.cols, {e \in m.entries : e[1] <= e[2]})
LowerOf(m) == SparseMatrix(m.rows, m.cols, {e \in m.entries : e[1] >= e[2]})
FullOf(m) ==
    SparseMatrix(m.rows, m.cols,
                 m.entries \cup {<<e[2], e[1], e[3]>> : e \in m.entries})

M_Dense2 == SymFull(2, <<4, 5>>, {<<0, 1, -1>>})
StorageMatrices ==
    UNION {{m, UpperOf(m), LowerOf(m)} : m \in {M_Dense2, M_Chain3}}

\* the solver used on the three storages
NextStorage ==
    \/ \E m \in StorageMatrices : analyzePattern(m)
    \/ \E m \in StorageMatrices, W \in 1..MaxW : factorizeCall(m, W)
    \/ \E w \in Workers : WhileTest(w)
    \/ \E w \in Workers : Claim(w)
    \/ \E w \in Workers : NoFront(w)
    \/ \E w \in Workers : ProcessFront(w)
    \/ \E w \in Workers : MarkProcessed(w)
    \/ factorizeReturn

SpecStorage == Init /\ [][NextStorage]_vars

\* the threads are std::threads of the operating system: a thread that can
\* take its next step takes it in the end, and factorize, blocked in join,
\* goes on when every thread has left its lambda.
\* A step of a worker thread: the call goes on and a thread of the bag moves
ThreadStep == running /\ running' /\ threads' # threads

\* some thread has not left its lambda; it can then take its next step
ThreadStepEnabled == running /\ \E w \in Workers : w.pc # "exit"

\* the calls that change the solver and the steps of a run; solve, which
\* cannot be called during a run and writes nothing of the solver, is left out
NextFactorize ==
    \/ \E m \in Matrices : analyzePattern(m)
    \/ \E m \in Matrices, W \in 1..MaxW : factorizeCall(m, W)
    \/ \E w \in Workers : WhileTest(w)
    \/ \E w \in Workers : Claim(w)
    \/ \E w \in Workers : NoFront(w)
    \/ \E w \in Workers : ProcessFront(w)
    \/ \E w \in Workers : MarkProcessed(w)
    \/ factorizeReturn

\* the last conjunct is weak fairness of the worker steps, written out with
\* ThreadStepEnabled for the ENABLED predicate
FairSpec ==
    /\ Init /\ [][NextFactorize]_vars
    /\ WF_vars(factorizeReturn)
    /\ ([]<>~ThreadStepEnabled \/ []<><<ThreadStep>>_vars)

\* ============================================== multifrontal (UMFPACK)
\* the statuses of the UMFPACK routines that the wrappers tell apart
UMFPACK_OK == "UMFPACK_OK"
UMFPACK_WARNING_singular_matrix == "UMFPACK_WARNING_singular_matrix"
UMFPACK_ERROR_out_of_memory == "UMFPACK_ERROR_out_of_memory"
UMFPACK_ERROR_invalid_Numeric_object == "UMFPACK_ERROR_invalid_Numeric_object"
SymbolicStatuses == {UMFPACK_OK, UMFPACK_ERROR_out_of_memory}
NumericStatuses == {UMFPACK_OK, UMFPACK_WARNING_singular_matrix, UMFPACK_ERROR_out_of_memory}
SolveStatuses == {UMFPACK_OK, UMFPACK_WARNING_singular_matrix}

\* the matrix orders passed to setMatrix
Orders == {0, 1, 2}

\* a handle is 0 (nullptr) or the number of the call that allocated it
Called(op, ret, past_guard) ==
    [umfpack_call EXCEPT !.calls = @ + 1, !.op = op, !.ret = ret, !.past_guard = past_guard]

\* MultifrontalMethod::MultifrontalMethod()
MultifrontalMethod_new ==
    /\ umfpack = NoObject
    /\ umfpack' = [class |-> "MultifrontalMethod", m_n |-> 0,
                   m_ap |-> FALSE, m_ai |-> FALSE, m_ax |-> FALSE,
                   m_symbolic |-> 0, m_numeric |-> 0, m_factorized |-> FALSE]
    /\ UNCHANGED <<solver, call, result, history, umfpack_call>>

\* ParallelMultifrontalMethod::ParallelMultifrontalMethod(int num_threads)
ParallelMultifrontalMethod_new(threads_arg) ==
    /\ umfpack = NoObject
    /\ umfpack' = [class |-> "ParallelMultifrontalMethod", m_n |-> 0,
                   m_ap |-> FALSE, m_ai |-> FALSE, m_ax |-> FALSE,
                   m_symbolic |-> 0, m_numeric |-> 0, m_factorized |-> FALSE,
                   m_num_threads |-> threads_arg]
    /\ UNCHANGED <<solver, call, result, history, umfpack_call>>

\* MultifrontalMethod::setMatrix; ap, ai, ax: the pointer is not null
MultifrontalMethod_setMatrix(n, ap, ai, ax) ==
    /\ umfpack.class = "MultifrontalMethod"
    /\ umfpack_call.calls < MaxCalls
    /\ IF n <= 0 \/ ~ap \/ ~ai \/ ~ax
       THEN /\ umfpack_call' = Called("setMatrix", FALSE, FALSE)
            /\ UNCHANGED umfpack
       ELSE /\ umfpack' = [umfpack EXCEPT !.m_n = n, !.m_symbolic = 0, !.m_numeric = 0,
                                          !.m_factorized = FALSE,
                                          !.m_ap = ap, !.m_ai = ai, !.m_ax = ax]
            /\ umfpack_call' = [Called("setMatrix", TRUE, FALSE) EXCEPT
                                   !.last_factorize = "none", !.good = 0]
    /\ UNCHANGED <<solver, call, result, history>>

\* MultifrontalMethod::factorize with the statuses that umfpack_di_symbolic
\* and umfpack_di_numeric return; a routine that fails with an error leaves
\* its handle null, the singular-matrix warning comes with a Numeric object
MultifrontalMethod_factorize(symbolic_status, numeric_status) ==
    /\ umfpack.class = "MultifrontalMethod"
    /\ umfpack_call.calls < MaxCalls
    /\ LET k == umfpack_call.calls + 1
       IN  IF umfpack.m_n <= 0 \/ ~umfpack.m_ap \/ ~umfpack.m_ai \/ ~umfpack.m_ax
           THEN /\ umfpack_call' = [Called("factorize", FALSE, FALSE) EXCEPT
                                       !.last_factorize = "false"]
                /\ UNCHANGED umfpack
           ELSE IF symbolic_status # UMFPACK_OK
           THEN /\ umfpack' = [umfpack EXCEPT !.m_symbolic = 0, !.m_numeric = 0]
                /\ umfpack_call' = [Called("factorize", FALSE, FALSE) EXCEPT
                                       !.last_factorize = "false"]
           ELSE IF numeric_status # UMFPACK_OK
           THEN /\ umfpack' = [umfpack EXCEPT
                                  !.m_symbolic = k,
                                  !.m_numeric = IF numeric_status = UMFPACK_WARNING_singular_matrix
                                                THEN k ELSE 0]
                /\ umfpack_call' = [Called("factorize", FALSE, FALSE) EXCEPT
                                       !.last_factorize = "false"]
           ELSE /\ umfpack' = [umfpack EXCEPT !.m_symbolic = k, !.m_numeric = k,
                                              !.m_factorized = TRUE]
                /\ umfpack_call' = [Called("factorize", TRUE, FALSE) EXCEPT
                                       !.last_factorize = "true", !.good = k]
    /\ UNCHANGED <<solver, call, result, history>>

\* MultifrontalMethod::solve; b, x: the pointer is not null.  umfpack_di_solve
\* rejects a null Numeric handle
MultifrontalMethod_solve(b, x, solve_status) ==
    /\ umfpack.class = "MultifrontalMethod"
    /\ umfpack_call.calls < MaxCalls
    /\ IF ~umfpack.m_factorized \/ ~b \/ ~x
       THEN umfpack_call' = Called("solve", FALSE, FALSE)
       ELSE LET status == IF umfpack.m_numeric = 0
                          THEN UMFPACK_ERROR_invalid_Numeric_object ELSE solve_status
            IN  umfpack_call' = Called("solve", status = UMFPACK_OK, TRUE)
    /\ UNCHANGED <<solver, call, result, history, umfpack>>

\* ParallelMultifrontalMethod::setMatrix
ParallelMultifrontalMethod_setMatrix(n, ap, ai, ax) ==
    /\ umfpack.class = "ParallelMultifrontalMethod"
    /\ umfpack_call.calls < MaxCalls
    /\ IF n <= 0 \/ ~ap \/ ~ai \/ ~ax
       THEN /\ umfpack_call' = Called("setMatrix", FALSE, FALSE)
            /\ UNCHANGED umfpack
       ELSE /\ umfpack' = [umfpack EXCEPT !.m_n = n, !.m_symbolic = 0, !.m_numeric = 0,
                                          !.m_factorized = FALSE,
                                          !.m_ap = ap, !.m_ai = ai, !.m_ax = ax]
            /\ umfpack_call' = [Called("setMatrix", TRUE, FALSE) EXCEPT
                                   !.last_factorize = "none", !.good = 0]
    /\ UNCHANGED <<solver, call, result, history>>

\* ParallelMultifrontalMethod::factorize: the same steps with a Control array
ParallelMultifrontalMethod_factorize(symbolic_status, numeric_status) ==
    /\ umfpack.class = "ParallelMultifrontalMethod"
    /\ umfpack_call.calls < MaxCalls
    /\ LET k == umfpack_call.calls + 1
       IN  IF umfpack.m_n <= 0 \/ ~umfpack.m_ap \/ ~umfpack.m_ai \/ ~umfpack.m_ax
           THEN /\ umfpack_call' = [Called("factorize", FALSE, FALSE) EXCEPT
                                       !.last_factorize = "false"]
                /\ UNCHANGED umfpack
           ELSE IF symbolic_status # UMFPACK_OK
           THEN /\ umfpack' = [umfpack EXCEPT !.m_symbolic = 0, !.m_numeric = 0]
                /\ umfpack_call' = [Called("factorize", FALSE, FALSE) EXCEPT
                                       !.last_factorize = "false"]
           ELSE IF numeric_status # UMFPACK_OK
           THEN /\ umfpack' = [umfpack EXCEPT
                                  !.m_symbolic = k,
                                  !.m_numeric = IF numeric_status = UMFPACK_WARNING_singular_matrix
                                                THEN k ELSE 0]
                /\ umfpack_call' = [Called("factorize", FALSE, FALSE) EXCEPT
                                       !.last_factorize = "false"]
           ELSE /\ umfpack' = [umfpack EXCEPT !.m_symbolic = k, !.m_numeric = k,
                                              !.m_factorized = TRUE]
                /\ umfpack_call' = [Called("factorize", TRUE, FALSE) EXCEPT
                                       !.last_factorize = "true", !.good = k]
    /\ UNCHANGED <<solver, call, result, history>>

\* ParallelMultifrontalMethod::solve
ParallelMultifrontalMethod_solve(b, x, solve_status) ==
    /\ umfpack.class = "ParallelMultifrontalMethod"
    /\ umfpack_call.calls < MaxCalls
    /\ IF ~umfpack.m_factorized \/ ~b \/ ~x
       THEN umfpack_call' = Called("solve", FALSE, FALSE)
       ELSE LET status == IF umfpack.m_numeric = 0
                          THEN UMFPACK_ERROR_invalid_Numeric_object ELSE solve_status
            IN  umfpack_call' = Called("solve", status = UMFPACK_OK, TRUE)
    /\ UNCHANGED <<solver, call, result, history, umfpack>>

NextMultifrontal ==
    \/ MultifrontalMethod_new
    \/ \E t \in {0, 2} : ParallelMultifrontalMethod_new(t)
    \/ \E n \in Orders, ap, ai, ax \in BOOLEAN : MultifrontalMethod_setMatrix(n, ap, ai, ax)
    \/ \E s \in SymbolicStatuses, t \in NumericStatuses : MultifrontalMethod_factorize(s, t)
    \/ \E b, x \in BOOLEAN, s \in SolveStatuses : MultifrontalMethod_solve(b, x, s)
    \/ \E n \in Orders, ap, ai, ax \in BOOLEAN : ParallelMultifrontalMethod_setMatrix(n, ap, ai, ax)
    \/ \E s \in SymbolicStatuses, t \in NumericStatuses : ParallelMultifrontalMethod_factorize(s, t)
    \/ \E b, x \in BOOLEAN, s \in SolveStatuses : ParallelMultifrontalMethod_solve(b, x, s)

SpecMultifrontal == Init /\ [][NextMultifrontal]_vars


\* ================================================================ claims
\* a worker that has claimed a front and not yet marked it processed
Processing(w) == running /\ w.pc \in {"process", "mark"}

\* |v| < 1e-12 for a double v
BelowPivotThreshold(v) ==
    IsFinite(v) /\ Abs(v[1]) <= ((v[2] - 1) \div 1000000) \div 1000000
PivotBreakdown(D) == \E i \in DOMAIN D : BelowPivotThreshold(D[i])

\* C1: no front is being processed unless every front of its dependencies
\* list is marked processed, and none of those is still being processed by
\* a worker
C1_DependenciesDoneBeforeRunning ==
    \A w \in Workers : Processing(w) =>
        \A k \in 1..Len(fronts[w.front_index].dependencies) :
            LET dep == fronts[w.front_index].dependencies[k]
            IN  /\ fronts[dep].processed
                /\ \A w2 \in Workers : ~(Processing(w2) /\ w2.front_index = dep)

\* C2: in one run every front is claimed at most once, and no two workers
\* are processing the same front at the same time
C2_ClaimedAtMostOnce ==
    /\ \A i \in DOMAIN process_count : process_count[i] <= 1
    /\ \A w1, w2 \in Workers :
          (Processing(w1) /\ Processing(w2) /\ w1.front_index = w2.front_index)
              => (w1 = w2 /\ CopiesIn(w1, threads) = 1)

\* C3: a worker leaves its loop only when all fronts are processed, and when
\* factorize returns every front was processed in that run and has L and D
C3_AllFrontsProcessedOnReturn ==
    /\ \A w \in Workers : (running /\ w.pc = "exit") => AllProcessed(fronts)
    /\ result = Outcome("factorize", "ok") =>
          \A i \in DOMAIN fronts :
              /\ fronts[i].processed
              /\ process_count[i] >= 1
              /\ Size(fronts[i].L) = Cardinality(fronts[i].variables)
              /\ Size(fronts[i].D) = Cardinality(fronts[i].variables)

\* the factorization of some front of this run has met a pivot below the threshold
ErrorRaised ==
    /\ running
    /\ \E i \in DOMAIN fronts :
          /\ fronts[i].processed \/ \E w \in Workers : w.pc = "mark" /\ w.front_index = i
          /\ PivotBreakdown(fronts[i].D)

\* C4: once the processing of a front has failed, no worker claims another
\* front and factorize does not return normally
C4_NoClaimAfterError ==
    [][ErrorRaised => ~(factorizeReturn \/ \E w \in Workers : Claim(w))]_vars

\* C5: when the LDL factorization of a front has met a pivot below the
\* threshold, factorize has failed and the solver is not marked factorized
C5_SingularPivotFails ==
    (~running /\ \E i \in DOMAIN fronts :
                    fronts[i].processed /\ PivotBreakdown(fronts[i].D))
    => (~factorization_done /\ result # Outcome("factorize", "ok"))

\* C6: after a factorize call that failed the solver is not factorized
C6_FailedFactorizeNotFactorized ==
    (result.op = "factorize" /\ result.status \in Errors) => ~factorization_done

\* C7: while analyzePattern has never succeeded, a factorize call fails with
\* PatternNotAnalyzedError and changes nothing of the solver
C7_FactorizeBeforeAnalyze ==
    [][\A m \in Matrices, W \in 1..MaxW :
          (analyze_calls = 0 /\ factorizeCall(m, W)) =>
              /\ result' = Outcome("factorize", PatternNotAnalyzedError)
              /\ UNCHANGED <<solver, call>>]_vars

C7_Witness ==
    /\ analyze_calls = 0
    /\ result = Outcome("factorize", PatternNotAnalyzedError)

\* C8: after a successful analyzePattern, a factorize call with a matrix of
\* another shape fails with DimensionMismatchError, starts no worker and
\* changes no front
C8_FactorizeShapeMismatch ==
    [][\A m \in Matrices, W \in 1..MaxW :
          (analyze_calls >= 1 /\ (m.rows # rows \/ m.cols # cols) /\ factorizeCall(m, W)) =>
              /\ result' = Outcome("factorize", DimensionMismatchError)
              /\ UNCHANGED <<fronts, call>>]_vars

C8_Witness ==
    /\ analyze_calls >= 1
    /\ result = Outcome("factorize", DimensionMismatchError)
    /\ \E i \in DOMAIN fronts : fronts[i].processed

\* C9: a solve call made while no factorize call has returned normally fails
\* with NotFactorizedError and returns no vector
C9_SolveBeforeFactorize ==
    (result.op = "solve" /\ ~factorize_returned) =>
        result = Outcome("solve", NotFactorizedError)

C9_Witness ==
    /\ analyze_calls >= 1
    /\ ~factorize_returned
    /\ result = Outcome("solve", NotFactorizedError)

\* C10: on a factorized solver, solve fails with DimensionMismatchError when
\* the length of rhs differs from rows, and otherwise returns rows entries
C10_SolveLength ==
    [][\A rhs \in RhsVectors :
          (factorize_returned /\ solve(rhs)) =>
              IF Size(rhs) # rows
              THEN result' = Outcome("solve", DimensionMismatchError)
              ELSE result'.returned /\ Size(result'.x) = rows]_vars

C10_Witness ==
    /\ factorize_returned
    /\ result = Outcome("solve", DimensionMismatchError)

\* C11: analyzePattern fails with DimensionError when rows or cols is not
\* positive and with NotSquareError when rows differs from cols, and the
\* failing call leaves the analyzed flag, the stored dimensions, the forest
\* and the fronts as they were
C11_AnalyzeRejectsBadShape ==
    [][\A m \in Matrices :
          ((m.rows <= 0 \/ m.cols <= 0 \/ m.rows # m.cols) /\ analyzePattern(m)) =>
              /\ result' = Outcome("analyzePattern",
                                   IF m.rows <= 0 \/ m.cols <= 0 THEN DimensionError
                                   ELSE NotSquareError)
              /\ UNCHANGED <<solver, call>>]_vars

C11_Witness ==
    /\ pattern_analyzed
    /\ Size(fronts) > 0
    /\ result = Outcome("analyzePattern", NotSquareError)

\* the stored entries of m form a symmetric pattern
SymmetricPattern(m) ==
    \A e \in m.entries : \E f \in m.entries : f[1] = e[2] /\ f[2] = e[1]

\* how many times x occurs in the sequence s
Count(s, x) == Cardinality({k \in 1..Len(s) : s[k] = x})

\* parent and children describe one forest over the nodes 0..n-1 whose
\* parent links go to strictly greater indices
Forest(n, parent, children) ==
    /\ Size(parent) = n
    /\ Size(children) = n
    /\ \A v \in 0..(n - 1) :
          parent[v] = -1 \/ (parent[v] > v /\ parent[v] < n)
    /\ \A p \in 0..(n - 1) : \A c \in 0..(n - 1) :
          Count(children[p], c) = (IF parent[c] = p THEN 1 ELSE 0)
    /\ \A p \in 0..(n - 1) : Range(children[p]) \subseteq 0..(n - 1)

\* C12: for a symmetric pattern of dimension n, what analyzePattern leaves is
\* a forest over exactly the nodes 0..n-1: every node has at most one parent,
\* of strictly greater index, and c is in children(p) exactly once if and
\* only if parent[c] = p
C12_AnalyzedForest ==
    (pattern_analyzed /\ SymmetricPattern(analyzed)) =>
        Forest(analyzed.rows, etree_parent, etree_children)

\* the structural part of the fronts: variables, dependencies and dependents
Structure(fr) ==
    [i \in DOMAIN fr |-> [variables |-> fr[i].variables,
                          dependencies |-> fr[i].dependencies,
                          dependents |-> fr[i].dependents]]

\* C13: an analyzePattern call with the pattern of the analysis before it
\* leaves the parent array, the children list of every node and the
\* variables, dependencies and dependents of every front as they were
C13_AnalyzeIdempotent ==
    [][\A m \in Matrices :
          (pattern_analyzed /\ analyzed = m /\ analyzePattern(m)) =>
              /\ etree_parent' = etree_parent
              /\ etree_children' = etree_children
              /\ Structure(fronts') = Structure(fronts)]_vars

\* what analyzePattern(m) leaves in a newly constructed solver, whose
\* etree_parent and etree_children are empty vectors
FreshAnalysis(m) ==
    LET tree == buildEliminationTreeProper(m, <<>>, <<>>)
    IN  [etree_parent |-> tree.etree_parent,
         etree_children |-> tree.etree_children,
         fronts |-> buildAssemblyTreeProper(m, tree.etree_children)]

\* C14: a successful analyzePattern(M2) on a solver that holds the analysis
\* of another pattern M1 leaves the parent array, the children lists and the
\* fronts that a newly constructed solver has after analyzePattern(M2)
C14_ReanalyzeAsFresh ==
    [][\A m \in Matrices :
          (pattern_analyzed /\ analyzed # m /\ analyzePatternCheck(m) = "ok"
              /\ analyzePattern(m)) =>
              /\ etree_parent' = FreshAnalysis(m).etree_parent
              /\ etree_children' = FreshAnalysis(m).etree_children
              /\ fronts' = FreshAnalysis(m).fronts]_vars

\* C15: under fair scheduling every factorize run that has started its
\* workers ends with all of them joined, and while a front is unprocessed
\* the scan finds a front to claim, so that no worker is left waiting
C15_FactorizeTerminates ==
    /\ running ~> ~running
    /\ [](running /\ ~AllProcessed(fronts) => FindFront(fronts) # -1)

C15_Witness ==
    /\ result = Outcome("factorize", "ok")
    /\ Size(fronts) >= 3
    /\ \E i \in DOMAIN process_count : process_count[i] >= 2

\* the positions of the stored entries, with the shape
PatternOf(m) == [rows |-> m.rows, cols |-> m.cols,
                 positions |-> {<<e[1], e[2]>> : e \in m.entries}]

\* every worker of the running factorize call has left its loop
AllWorkersExited == running /\ \A w \in Workers : w.pc = "exit"

\* C16: when factorize is called again on the analyzed pattern, then at the
\* join every front has been processed in this call and carries the L and D
\* computed from this call's values, and the fronts' variables, dependencies
\* and dependents are those the analysis built
C16_RefactorizeRecomputes ==
    (AllWorkersExited /\ factorized # M_Empty /\ PatternOf(matrix) = PatternOf(analyzed)) =>
        /\ \A i \in DOMAIN fronts :
              /\ fronts[i].processed
              /\ process_count[i] >= 1
              /\ fronts[i].L = processFront(fronts[i], matrix).L
              /\ fronts[i].D = processFront(fronts[i], matrix).D
        /\ Structure(fronts) = Structure(buildAssemblyTreeProper(analyzed, etree_children))

\* the block of M_Block4 a variable belongs to
BlockOf(v) == IF v <= 1 THEN 0 ELSE 1

\* the fronts no other front waits for
RootFronts(fr) == {i \in DOMAIN fr : fr[i].dependents = <<>>}

\* C17: after analyzePattern of the block-diagonal matrix there are exactly
\* two root fronts, one per block, and no front has a dependency or a
\* dependent in the other block
C17_BlockDiagonalIndependent ==
    (pattern_analyzed /\ analyzed = M_Block4) =>
        /\ Cardinality(RootFronts(fronts)) = 2
        /\ Cardinality({i \in 0..3 : etree_parent[i] = -1}) = 2
        /\ \A i \in DOMAIN fronts :
              \A j \in Range(fronts[i].dependencies) \cup Range(fronts[i].dependents) :
                  BlockOf(i) = BlockOf(j)

\* C18: when the workers of a factorize call have all left, every front
\* holds the L and D that the sequential pass over the fronts in increasing
\* index order computes from the same matrix, for every number of workers
\* and every interleaving
C18_ParallelEqualsSequential ==
    AllWorkersExited =>
        \A i \in DOMAIN fronts :
            /\ fronts[i].L = assembleAndFactor(fronts, matrix)[i].L
            /\ fronts[i].D = assembleAndFactor(fronts, matrix)[i].D

\* the sum of the set S of <<key, value>> pairs' values
RECURSIVE SumValues(_)
SumValues(S) ==
    IF S = {} THEN 0
    ELSE LET p == CHOOSE q \in S : TRUE
         IN  p[2] + SumValues(S \ {p})

\* entry i of the product of the matrix m with the vector x
RowTimes(m, i, x) ==
    SumValues({<<e[2], e[3] * x[e[2]]>> : e \in {t \in m.entries : t[1] = i}})

\* the stored values of m are symmetric
SymmetricValues(m) ==
    \A e \in m.entries : <<e[2], e[1], e[3]>> \in m.entries

\* every front holds a finite D without a pivot below the threshold
NoPivotBreakdown ==
    \A i \in DOMAIN fronts :
        /\ Size(fronts[i].D) = Cardinality(fronts[i].variables)
        /\ \A k \in DOMAIN fronts[i].D : IsFinite(fronts[i].D[k])
        /\ ~PivotBreakdown(fronts[i].D)

\* C19: after analyzePattern(A) and factorize(A) for a symmetric A whose
\* factorization met no pivot breakdown, the vector x that solve(b) returns
\* satisfies A x = b
C19_SolveSolvesSystem ==
    [][\A rhs \in RhsVectors :
          (/\ factorized = analyzed
           /\ SymmetricValues(analyzed)
           /\ NoPivotBreakdown
           /\ solve(rhs)
           /\ result'.returned) =>
              \A i \in 0..(rows - 1) : RowTimes(analyzed, i, result'.x) = rhs[i]]_vars

\* m is the identity matrix of its dimension, stored as its diagonal
IsIdentity(m) ==
    /\ m.rows > 0 /\ m.rows = m.cols
    /\ m.entries = {<<i, i, 1>> : i \in 0..(m.rows - 1)}

\* C20: after analyzePattern and factorize of the n x n identity, solve(b)
\* for a b of length n returns a vector equal to b entry by entry
C20_IdentityRoundTrip ==
    [][\A rhs \in RhsVectors :
          (/\ IsIdentity(analyzed)
           /\ factorized = analyzed
           /\ Size(rhs) = analyzed.rows
           /\ solve(rhs)) =>
              /\ result'.returned
              /\ result'.x = rhs]_vars

C20_Witness ==
    /\ IsIdentity(analyzed)
    /\ analyzed.rows = 3
    /\ factorized = analyzed
    /\ result = Returned("solve", Vec(<<1, 2, 3>>))

\* C21: a solve call, returning or throwing, changes nothing of the solver
\* and leaves the caller's rhs as it was, and when the call before it was a
\* solve with the same rhs it gives the same outcome again
C21_SolveChangesNothing ==
    [][\A rhs \in RhsVectors :
          solve(rhs) =>
              /\ UNCHANGED <<solver, call>>
              /\ rhs_arg' = Rhs(rhs)
              /\ (result.op = "solve" /\ rhs_arg = Rhs(rhs)) => result' = result]_vars

C21_Witness ==
    /\ factorize_returned
    /\ \E i \in DOMAIN fronts : Size(fronts[i].D) > 0
    /\ rhs_arg = Rhs(Vec(<<1, 2>>))
    /\ result = Returned("solve", Vec(<<1, 2>>))

\* C22: analyzePattern and factorize of a symmetric matrix stored as its
\* upper triangle, its lower triangle or both give the forest and fronts of
\* the full storage, and in every front the same F, L and D (stated for a
\* new solver and a run in which every front was processed once)
C22_StorageIndependent ==
    (/\ AllWorkersExited
     /\ analyze_calls = 1
     /\ matrix = analyzed
     /\ \A i \in DOMAIN fronts : process_count[i] = 1) =>
        LET full == FullOf(matrix)
            fresh == FreshAnalysis(full)
            done == assembleAndFactor(fresh.fronts, full)
        IN  /\ etree_parent = fresh.etree_parent
            /\ etree_children = fresh.etree_children
            /\ Structure(fronts) = Structure(fresh.fronts)
            /\ \A i \in DOMAIN fronts :
                  /\ fronts[i].F = done[i].F
                  /\ fronts[i].L = done[i].L
                  /\ fronts[i].D = done[i].D

\* C23: during a run the completed counter equals the number of fronts
\* marked processed, never exceeds the number of fronts, and equals it
\* exactly when every front is processed
C23_CompletedCountsDone ==
    running =>
        /\ completed_fronts = Cardinality({i \in DOMAIN fronts : fronts[i].processed})
        /\ completed_fronts <= total_fronts
        /\ (completed_fronts = total_fronts) <=> AllProcessed(fronts)

\* the neighbours of v in the off-diagonal adjacency graph of m that the
\* identity order has not visited when v is processed
LaterNeighbours(m, v) ==
    {u \in 0..(m.rows - 1) :
        /\ u > v
        /\ \E e \in m.entries : {e[1], e[2]} = {u, v}}

\* C24: after the first analyzePattern of a solver, parent[v] is the greatest
\* neighbour of v among those of index greater than v, and v has no parent
\* if and only if there is none; a diagonal entry gives no edge
C24_ParentIsMaxLaterNeighbour ==
    (pattern_analyzed /\ analyze_calls = 1) =>
        \A v \in 0..(rows - 1) :
            LET later == LaterNeighbours(analyzed, v)
            IN  /\ (etree_parent[v] = -1) <=> (later = {})
                /\ later # {} =>
                      /\ etree_parent[v] \in later
                      /\ \A u \in later : u <= etree_parent[v]

C24_Witness ==
    /\ pattern_analyzed /\ analyze_calls = 1
    /\ analyzed = M_Vee3
    /\ LaterNeighbours(analyzed, 0) = {1, 2}
    /\ etree_parent = Vec(<<2, -1, -1>>)

C26_DependenciesMirrorForest ==
    pattern_analyzed =>
        \A v \in 0..(rows - 1) :
            /\ fronts[v].dependencies = etree_children[v]
            /\ Range(fronts[v].dependents) =
                  (IF etree_parent[v] = -1 THEN {} ELSE {etree_parent[v]})
            /\ \A d \in 0..(rows - 1) :
                  (d \in Range(fronts[v].dependencies)) <=> (v \in Range(fronts[d].dependents))
            /\ \A d \in Range(fronts[v].dependencies) : d >= 0 /\ d < v

\* the value the matrix m stores at (r, c), zero where it stores none
EntryAt(m, r, c) ==
    LET hit == {t \in m.entries : t[1] = r /\ t[2] = c}
    IN  IF hit = {} THEN Zero ELSE Dbl((CHOOSE t \in hit : TRUE)[3])

\* the entry (a, b) of the block that is left of the local matrix of the
\* front child once its eliminated variable is eliminated
SchurEntry(child, a, b) ==
    LET e == VarToIdx(child.variables, child.eliminated_vars[1])
        i == VarToIdx(child.variables, a)
        j == VarToIdx(child.variables, b)
    IN  Sub(child.F[i][j], Div(Mul(child.F[i][e], child.F[e][j]), child.F[e][e]))

\* acc plus the entries (a, b) of the blocks of the fronts in cs that hold a and b
RECURSIVE AddContributions(_, _, _, _)
AddContributions(acc, cs, a, b) ==
    IF cs = {} THEN acc
    ELSE LET c == CHOOSE x \in cs : TRUE
             shared == {a, b} \subseteq Range(fronts[c].remaining_vars)
         IN  AddContributions(IF shared THEN Sub(acc, Sub(Zero, SchurEntry(fronts[c], a, b)))
                              ELSE acc,
                              cs \ {c}, a, b)

\* the fronts that front v waits for and that exist
ChildFronts(v) == {c \in Range(fronts[v].dependencies) : c \in DOMAIN fronts}

\* C27: a front that has been processed once in a run holds as local matrix
\* the entries of the input matrix restricted to its variables (zero
\* elsewhere) plus, entry by entry, the trailing blocks of its completed
\* children on the variables they share with it
C27_LocalMatrixAssembled ==
    AllWorkersExited =>
        \A v \in DOMAIN fronts :
            (/\ process_count[v] = 1
             /\ \A c \in ChildFronts(v) : process_count[c] = 1) =>
                \A a, b \in fronts[v].variables :
                    fronts[v].F[VarToIdx(fronts[v].variables, a)][VarToIdx(fronts[v].variables, b)]
                        = AddContributions(EntryAt(matrix, a, b), ChildFronts(v), a, b)

\* C28: a solve call made when no factorize call has returned normally since
\* the last successful analyzePattern fails with NotFactorizedError, so a
\* solve that returns uses factors of the currently analyzed pattern
C28_SolveUsesCurrentFactors ==
    (result.op = "solve" /\ factorized = M_Empty) =>
        result = Outcome("solve", NotFactorizedError)

\* the variables joined to a variable of S by a path of off-diagonal entries of m
RECURSIVE Component(_, _)
Component(m, S) ==
    LET T == S \cup UNION {Adjacency(m)[v] : v \in S}
    IN  IF T = S THEN S ELSE Component(m, T)

\* the node reached from v by following the parent array at most k times
RECURSIVE RootOf(_, _)
RootOf(v, k) ==
    IF k = 0 \/ etree_parent[v] \notin DOMAIN etree_parent THEN v
    ELSE RootOf(etree_parent[v], k - 1)

\* C29: in the forest that analyzePattern builds on a new solver, two
\* variables are in the same tree exactly when they are in the same connected
\* component of the off-diagonal adjacency graph, so every component has one
\* root
C29_OneRootPerComponent ==
    (pattern_analyzed /\ analyze_calls = 1) =>
        \A u, v \in 0..(rows - 1) :
            (RootOf(u, rows) = RootOf(v, rows)) <=> (v \in Component(analyzed, {u}))

\* C30: on a MultifrontalMethod or ParallelMultifrontalMethod object the
\* factorized flag is set only while both handles are those of a factorize
\* call that returned true after the last successful setMatrix, solve gets
\* past its guard only if the most recent factorize call returned true, and
\* a factorize call that returned false leaves the object not factorized
C30_FactorizedFlagTracksHandles ==
    umfpack # NoObject =>
        /\ umfpack.m_factorized =>
              /\ umfpack_call.last_factorize = "true"
              /\ umfpack_call.good # 0
              /\ umfpack.m_symbolic = umfpack_call.good
              /\ umfpack.m_numeric = umfpack_call.good
        /\ (umfpack_call.op = "solve" /\ umfpack_call.past_guard) =>
              umfpack_call.last_factorize = "true"
        /\ (umfpack_call.op = "factorize" /\ ~umfpack_call.ret) => ~umfpack.m_factorized

====
